---- MODULE Spec2Model ----
(***************************************************************************)
(* gotail (cmd/gotail): the run coordinator (main / runFiles), the glob    *)
(* resolver (expandGlobs), the line window extractor (input.GetLines),     *)
(* the file followers (output.NewFollowedFileForPath) and the output       *)
(* multiplexer (output.newLinePrinter), as one state machine.              *)
(*                                                                         *)
(* A file is the sequence of its complete lines; line j of a file is the   *)
(* number j, so a line is identified by its path and its position.  The    *)
(* size of a file in bytes is represented by its number of lines: writers  *)
(* append whole lines.                                                     *)
(***************************************************************************)
EXTENDS Integers, Sequences, FiniteSets, TLC

\* ---------------------------------------------------------------- bounds
\* lines every file that exists at startup holds
InitLines == 2
\* lines the writers append during a run, over all files
MaxAppends == 2
\* files created during a run
MaxCreates == 1
\* passes of the rescan loop (for { expandGlobs; runFiles; Sleep })
MaxPasses == 2
\* the -n value of the run
NumLinesArg == 1
\* calls of print(path, line) a test of the printer makes
MaxCalls == 4
\* lines of the file, and the largest -n value, of a run of GetLines alone
MaxFileLines == 4
MaxWanted == 5
\* the most -G patterns of a run of the resolver alone
MaxGlobs == 2
\* the capacity of a follower's leaky bucket (1000 in the code) and the most
\* lines a writer appends in a run of one follower alone
BucketSize == 1
MaxBurst == 3

\* the calls of newLinePrinter a test makes
MaxNew == 3
\* the ceiling on tracked files, scaled down (init() sets rlimit = 1000)
rlimit == 2

\* ------------------------------------------------------------ file names
AbsPaths == {"/a", "/b", "/c"}

\* filepath.Clean(filepath.Abs(path)) with the working directory "/"
Abs(path) ==
    CASE path = "a" -> "/a"
      [] path = "./a" -> "/a"
      [] path = "b" -> "/b"
      [] path = "c" -> "/c"
      [] OTHER -> path

\* the names of the working directory in the order filepath.Glob lists them
DirNames == <<"a", "b", "c">>

\* filepath.Glob(g): "*" matches every file of the working directory, "["
\* is a malformed pattern (ErrBadPattern); ex is the set of existing files
Glob(g, ex) ==
    IF g = "["
    THEN [files |-> <<>>, err |-> TRUE]
    ELSE [files |-> SelectSeq(DirNames, LAMBDA n : g = "*" /\ Abs(n) \in ex),
          err |-> FALSE]

\* the first loop of expandGlobs: mark the existing items as found
RECURSIVE MarkExisting(_, _, _)
MarkExisting(expanded, k, found) ==
    IF k > Len(expanded) THEN found
    ELSE MarkExisting(expanded, k + 1, found \cup {Abs(expanded[k])})

\* the inner loop of expandGlobs over the matches of one pattern
RECURSIVE AddMatches(_, _, _, _)
AddMatches(files, k, expanded, found) ==
    IF k > Len(files) THEN [expanded |-> expanded, found |-> found]
    ELSE LET path == Abs(files[k]) IN
         IF path \in found
         THEN AddMatches(files, k + 1, expanded, found)
         ELSE AddMatches(files, k + 1, Append(expanded, path), found \cup {path})

\* the loop of expandGlobs over the patterns; err is the named result, which
\* every call of filepath.Glob assigns
RECURSIVE GlobLoop(_, _, _, _, _, _)
GlobLoop(globs, k, expanded, found, err, ex) ==
    IF k > Len(globs) THEN [expanded |-> expanded, err |-> err]
    ELSE LET g == Glob(globs[k], ex) IN
         IF g.err
         THEN GlobLoop(globs, k + 1, expanded, found, TRUE, ex)
         ELSE LET r == AddMatches(g.files, 1, expanded, found) IN
              GlobLoop(globs, k + 1, r.expanded, r.found, FALSE, ex)

expandGlobs(globs, existing, ex) ==
    GlobLoop(globs, 1, existing, MarkExisting(existing, 1, {}), FALSE, ex)

\* ------------------------------------------------- line window extractor
\* the content of a file of n lines: line j has the text j
Content(n) == [j \in 1..n |-> j]

RECURSIVE OffsetScan(_, _, _, _, _)
OffsetScan(content, j, lines, totalLines, linesWanted) ==
    IF j > Len(content) THEN [lines |-> lines, totalLines |-> totalLines]
    ELSE OffsetScan(content, j + 1,
                    IF totalLines >= linesWanted THEN Append(lines, content[j]) ELSE lines,
                    totalLines + 1, linesWanted)

\* a head scan that stops at the end of the window
RECURSIVE HeadScanStops(_, _, _, _, _)
HeadScanStops(content, j, lines, totalLines, linesWanted) ==
    IF j > Len(content) \/ totalLines >= linesWanted
    THEN [lines |-> lines, totalLines |-> totalLines]
    ELSE HeadScanStops(content, j + 1, Append(lines, content[j]),
                       totalLines + 1, linesWanted)

RECURSIVE HeadScan(_, _, _, _, _)
HeadScan(content, j, lines, totalLines, linesWanted) ==
    IF j > Len(content) THEN [lines |-> lines, totalLines |-> totalLines]
    ELSE HeadScan(content, j + 1,
                  IF totalLines < linesWanted THEN Append(lines, content[j]) ELSE lines,
                  totalLines + 1, linesWanted)

\* a tail scan that evicts one line too early
RECURSIVE TailScanEvictsEarly(_, _, _, _, _)
TailScanEvictsEarly(content, j, lines, totalLines, linesWanted) ==
    IF j > Len(content) THEN [lines |-> lines, totalLines |-> totalLines]
    ELSE LET appended == Append(lines, content[j]) IN
         TailScanEvictsEarly(content, j + 1,
                  IF totalLines + 1 >= linesWanted THEN Tail(appended) ELSE appended,
                  totalLines + 1, linesWanted)

RECURSIVE TailScan(_, _, _, _, _)
TailScan(content, j, lines, totalLines, linesWanted) ==
    IF j > Len(content) THEN [lines |-> lines, totalLines |-> totalLines]
    ELSE LET appended == Append(lines, content[j]) IN
         TailScan(content, j + 1,
                  IF totalLines + 1 > linesWanted THEN Tail(appended) ELSE appended,
                  totalLines + 1, linesWanted)

\* the three loops of GetLines over the lines the scanner delivers
ScanLoops(content, head, startAtOffset, linesWanted) ==
    IF head
    THEN IF startAtOffset
         THEN OffsetScan(content, 1, <<>>, 1, linesWanted)
         ELSE HeadScan(content, 1, <<>>, 0, linesWanted)
    ELSE TailScan(content, 1, <<>>, 0, linesWanted)

\* ------------------------------------------------------------------ state
VARIABLES
    args,             \* the parsed arguments: Glob and Files
    follow,           \* the follow flag after main's adjustments
    head,             \* print the head rather than the tail
    startAtOffset,    \* the -n value had a '+' prefix
    numLines,         \* the -n value
    interval,         \* the seconds the rescan loop sleeps between two passes
    rlimitErr,        \* setrlimit returned an error to init
    outputPrinter,    \* the package's printer: instance, channel, goroutines
    exists,           \* the files that exist, by absolute path
    signal,           \* an os.Interrupt has been delivered on main's channel c
    fileLen,          \* the number of lines of every file
    appends,          \* lines appended so far by the writers
    creates,          \* files created so far during the run
    scanErr,          \* for every file the line its scanner fails at, 0 for none
    stdin,            \* standard input: piped or a terminal, its lines
    pc,               \* where the coordinator (main, runFiles) stands
    files,            \* the resolved file list
    multipleFiles,    \* len(files) > 1 at startup
    i,                \* runFiles: the index into files (from 1)
    filesFollowed,    \* the absolute paths already processed
    opened,           \* the paths GetLines was called for, in order
    lines,            \* runFiles: the window GetLines returned
    total,            \* runFiles: the total GetLines returned
    foundNew,         \* runFiles: a path of this pass was new
    followedFiles,    \* every FollowedFile constructed, in order
    newFollowedFiles, \* runFiles: the ones constructed in this pass
    r,                \* runFiles: the index of the release loop
    pass,             \* the number of passes started
    currentPath,      \* linePrinter.currentPath
    m,                \* the message the printer's goroutine holds
    ppc,              \* where the printer's goroutine stands
    stdout,           \* what was written to standard output, in order
    stderr,           \* what was written to the error stream
    exitCode,         \* -1 while the process runs, else its exit code
    calls,            \* a test's calls of print(path, line), in order
    sent              \* the number of those calls made so far

vars == <<args, follow, head, startAtOffset, numLines, interval, rlimitErr, outputPrinter, exists, signal, fileLen, appends,
          creates, scanErr, stdin, pc, files, multipleFiles, i, filesFollowed, lines, total,
          foundNew, followedFiles, newFollowedFiles, r, pass, currentPath, m,
          ppc, stdout, stderr, exitCode, opened, calls, sent>>

cfgVars == <<args, follow, head, startAtOffset, numLines, interval, rlimitErr, outputPrinter,
            calls, sent>>
envVars == <<exists, fileLen, appends, creates, signal, scanErr, stdin>>
passVars == <<files, multipleFiles, i, filesFollowed, opened, lines, total,
              foundNew, newFollowedFiles, r, pass>>
printerVars == <<currentPath, m, ppc>>

\* the file lists and glob patterns a run is started with; with a pattern
\* the paths given may be none, two spellings of a file, or a file that need
\* not exist when the run starts
ArgFiles == {<<>>, <<"a">>, <<"a", "./a">>, <<"a", "b">>, <<"b", "a">>, <<"a", "a", "a">>}
ArgChoices ==
    {[Glob |-> <<>>, Files |-> f] : f \in ArgFiles}
        \cup {[Glob |-> <<"*">>, Files |-> f] : f \in {<<>>, <<"a", "./a">>, <<"b">>}}
\* the files that exist when a run starts
InitExists == {{"/a"}, {"/a", "/b"}}

NoMsg == [path |-> "", line |-> 0, ff |-> 0]

\* standard input is a terminal (a character device)
NoStdin == [piped |-> FALSE, len |-> 0, bad |-> 0]

\* the lines scanner.Scan() delivers from a stream of n lines: all of them, or
\* those before line bad, where the scanner stops with an error (a line too
\* long for its buffer, a read that fails, a directory)
Scanned(n, bad) == Content(IF bad = 0 THEN n ELSE bad - 1)

\* input.GetLines(path, head, startAtOffset, linesWanted): the stream is
\* standard input when that is piped, else the file, whose open error is
\* printed on the error stream; make panics on a negative capacity; an error
\* of the scanner gives no lines and the total counted so far
GetLines(path, hd, offset, linesWanted) ==
    LET n == IF stdin.piped THEN stdin.len ELSE fileLen[Abs(path)]
        bad == IF stdin.piped THEN stdin.bad ELSE scanErr[Abs(path)]
        got == ScanLoops(Scanned(n, bad), hd, offset, linesWanted)
    IN  IF ~stdin.piped /\ Abs(path) \notin exists
        THEN [lines |-> <<>>, totalLines |-> 0, err |-> "open", panic |-> FALSE]
        ELSE IF linesWanted < 0
        THEN [lines |-> <<>>, totalLines |-> 0, err |-> "", panic |-> TRUE]
        ELSE IF bad # 0
        THEN [lines |-> <<>>, totalLines |-> got.totalLines, err |-> "scan",
              panic |-> FALSE]
        ELSE [lines |-> got.lines, totalLines |-> got.totalLines, err |-> "",
              panic |-> FALSE]

\* the package variables before init has run: outputPrinter is nil, printerOnce
\* is unused, no channel has been made and no goroutine ranges over one; news
\* and returned record the calls of a test and the instances they got
NilPrinter ==
    [instance |-> 0, once |-> FALSE, messages |-> 0, made |-> 0, consumers |-> 0,
     news |-> 0, returned |-> {}]

\* a constructor without the check for an instance
newLinePrinterNoCheck(op) ==
    [op EXCEPT !.instance = IF op.once THEN op.instance ELSE 1,
               !.once = TRUE,
               !.messages = op.made + 1,
               !.made = op.made + 1,
               !.consumers = op.consumers + 1]

\* newLinePrinter: the instance there is, or a new one (once), with a new
\* channel and a goroutine ranging over it
newLinePrinter(op) ==
    IF op.instance # 0 THEN op
    ELSE [op EXCEPT !.instance = IF op.once THEN op.instance ELSE 1,
                    !.once = TRUE,
                    !.messages = op.made + 1,
                    !.made = op.made + 1,
                    !.consumers = op.consumers + 1]

\* one write to standard output: by is the task that wrote it ("coord" or
\* "printer"), kind is "blank", "header", "line" or "window", path and ff are
\* the path and the follower of the message it was printed for (the path of
\* the file for a window), text holds the lines printed, pass the pass of
\* runFiles that wrote a window
Out(by, kind, path, text, ff, ps) ==
    [by |-> by, kind |-> kind, path |-> path, text |-> text, ff |-> ff, pass |-> ps]

Init ==
    /\ args \in ArgChoices
    /\ follow \in BOOLEAN
    /\ head = FALSE
    /\ startAtOffset = FALSE
    /\ numLines = NumLinesArg
    /\ interval = 1
    /\ rlimitErr = FALSE
    /\ outputPrinter = newLinePrinter(NilPrinter)
    /\ exists \in InitExists
    /\ fileLen = [p \in AbsPaths |-> IF p \in exists THEN InitLines ELSE 0]
    /\ appends = 0
    /\ creates = 0
    /\ signal = FALSE
    /\ scanErr = [p \in AbsPaths |-> 0]
    /\ stdin = NoStdin
    /\ pc = "main"
    /\ files = <<>>
    /\ multipleFiles = FALSE
    /\ i = 1
    /\ filesFollowed = {}
    /\ lines = <<>>
    /\ total = 0
    /\ foundNew = FALSE
    /\ followedFiles = <<>>
    /\ newFollowedFiles = <<>>
    /\ r = 1
    /\ pass = 0
    /\ currentPath = ""
    /\ m = NoMsg
    /\ ppc = "recv"
    /\ stdout = <<>>
    /\ stderr = <<>>
    /\ exitCode = -1
    /\ opened = <<>>
    /\ calls = <<>>
    /\ sent = 0

Running == exitCode = -1

\* --------------------------------------------------------- the environment
\* a writer appends one line to an existing file
AppendLine(p) ==
    /\ Running
    /\ p \in exists
    /\ appends < MaxAppends
    /\ fileLen' = [fileLen EXCEPT ![p] = @ + 1]
    /\ appends' = appends + 1
    /\ UNCHANGED <<cfgVars, exists, creates, signal, scanErr, stdin, pc, passVars, followedFiles,
                   printerVars, stdout, stderr, exitCode>>

\* a new, empty file appears in the working directory
CreateFile(p) ==
    /\ Running
    /\ p \notin exists
    /\ creates < MaxCreates
    /\ exists' = exists \cup {p}
    /\ fileLen' = [fileLen EXCEPT ![p] = 0]
    /\ creates' = creates + 1
    /\ UNCHANGED <<cfgVars, appends, signal, scanErr, stdin, pc, passVars, followedFiles,
                   printerVars, stdout, stderr, exitCode>>

\* --------------------------------------------------------- the coordinator
\* runFiles begins: an empty newFollowedFiles, foundNew false, the loop at 0
StartPass ==
    /\ newFollowedFiles' = <<>>
    /\ foundNew' = FALSE
    /\ i' = 1
    /\ r' = 1
    /\ pass' = pass + 1

Fatal(text, code) ==
    /\ stderr' = Append(stderr, text)
    /\ exitCode' = code

\* ------------------------------------------------- the -n value of main
\* a string is a sequence of characters
Digits == <<"0", "1", "2", "3", "4", "5", "6", "7", "8", "9">>

IsDigit(c) == \E d \in DOMAIN Digits : Digits[d] = c

DigitValue(c) == (CHOOSE d \in DOMAIN Digits : Digits[d] = c) - 1

\* regexp.MatchString(`^[0-9]+$`, str)
justDigits(str) == Len(str) >= 1 /\ \A k \in DOMAIN str : IsDigit(str[k])

RECURSIVE Decimal(_, _, _)
Decimal(str, k, acc) ==
    IF k > Len(str) THEN acc
    ELSE Decimal(str, k + 1, 10 * acc + DigitValue(str[k]))

\* strconv.Atoi(str): an optional sign, then one digit or more
Atoi(str) ==
    LET signed == Len(str) >= 1 /\ str[1] \in {"+", "-"}
        rest == IF signed THEN Tail(str) ELSE str
    IN IF ~justDigits(rest)
       THEN [val |-> 0, err |-> TRUE]
       ELSE [val |-> IF signed /\ str[1] = "-" THEN 0 - Decimal(rest, 1, 0)
                     ELSE Decimal(rest, 1, 0),
             err |-> FALSE]

\* main from the parsed arguments to the resolution of the file set: the
\* interval, the follow flag, and the -n value, which ends the process when
\* it is neither digits nor '+' and a number
ParseArgs ==
    /\ Running
    /\ pc = "parse"
    /\ interval' = IF args.Interval = 0 THEN 1 ELSE args.Interval
    /\ follow' = IF args.Head /\ args.Follow THEN FALSE ELSE args.Follow
    /\ LET numLinesStr == IF args.NumLinesStr = <<>> THEN <<"1", "0">>
                          ELSE args.NumLinesStr
           digits == justDigits(numLinesStr)
           n == IF digits THEN Atoi(numLinesStr) ELSE Atoi(Tail(numLinesStr))
       IN IF (~digits /\ numLinesStr[1] # "+") \/ n.err
          THEN /\ Fatal("Invalid -n value", 1)
               /\ UNCHANGED <<pc, head, startAtOffset, numLines>>
          ELSE /\ numLines' = n.val
               /\ head' = IF digits THEN args.Head ELSE TRUE
               /\ startAtOffset' = ~digits
               /\ pc' = "main"
               /\ UNCHANGED <<stderr, exitCode>>
    /\ UNCHANGED <<args, rlimitErr, outputPrinter, calls, sent, envVars, passVars, followedFiles,
                   printerVars, stdout>>

\* main after the argument parsing: resolve the file set, refuse an empty or
\* an oversized one, then run the files or start the follow goroutine
Main ==
    /\ Running
    /\ pc = "main"
    /\ IF stdin.piped
       THEN LET got == GetLines("", head, startAtOffset, numLines) IN
            /\ IF got.panic
               THEN Fatal("panic", 2) /\ UNCHANGED stdout
               ELSE IF got.err # ""
               THEN Fatal(got.err, 0) /\ UNCHANGED stdout
               ELSE /\ stdout' = Append(stdout,
                                    Out("coord", "window", "", got.lines, 0, pass))
                    /\ exitCode' = 0
                    /\ UNCHANGED stderr
            /\ UNCHANGED <<files, multipleFiles, pc, i, foundNew, newFollowedFiles,
                           r, pass>>
       ELSE LET res == expandGlobs(args.Glob, args.Files, exists) IN
            /\ files' = res.expanded
            /\ multipleFiles' = (Len(res.expanded) > 1)
            /\ UNCHANGED stdout
            /\ IF res.err
               THEN /\ Fatal("panic", 2)
                    /\ UNCHANGED <<pc, i, foundNew, newFollowedFiles, r, pass>>
               ELSE IF Len(res.expanded) = 0
               THEN /\ Fatal("No files specified", 1)
                    /\ UNCHANGED <<pc, i, foundNew, newFollowedFiles, r, pass>>
               ELSE IF Len(res.expanded) > rlimit
               THEN /\ Fatal("Too many files specified", 1)
                    /\ UNCHANGED <<pc, i, foundNew, newFollowedFiles, r, pass>>
               ELSE IF follow /\ Len(args.Glob) > 0
               THEN /\ pc' = "rescan"
                    /\ UNCHANGED <<stderr, exitCode, i, foundNew, newFollowedFiles,
                                   r, pass>>
               ELSE /\ pc' = "loop"
                    /\ StartPass
                    /\ UNCHANGED <<stderr, exitCode>>
    /\ UNCHANGED <<cfgVars, envVars, filesFollowed, opened, lines, total,
                   followedFiles, printerVars>>

\* a rescan loop that runs the list of the startup again
RescanStale ==
    /\ Running
    /\ pc = "rescan"
    /\ pass < MaxPasses
    /\ LET res == expandGlobs(args.Glob, args.Files, exists) IN
       /\ files' = files
       /\ IF res.err
          THEN /\ Fatal("panic", 2)
               /\ UNCHANGED <<pc, i, foundNew, newFollowedFiles, r, pass>>
          ELSE /\ pc' = "loop"
               /\ StartPass
               /\ UNCHANGED <<stderr, exitCode>>
    /\ UNCHANGED <<cfgVars, envVars, multipleFiles, filesFollowed, opened, lines,
                   total, followedFiles, printerVars, stdout>>

\* the follow goroutine with glob patterns: resolve again and run the files
Rescan ==
    /\ Running
    /\ pc = "rescan"
    /\ pass < MaxPasses
    /\ LET res == expandGlobs(args.Glob, args.Files, exists) IN
       /\ files' = res.expanded
       /\ IF res.err
          THEN /\ Fatal("panic", 2)
               /\ UNCHANGED <<pc, i, foundNew, newFollowedFiles, r, pass>>
          ELSE /\ pc' = "loop"
               /\ StartPass
               /\ UNCHANGED <<stderr, exitCode>>
    /\ UNCHANGED <<cfgVars, envVars, multipleFiles, filesFollowed, opened, lines,
                   total, followedFiles, printerVars, stdout>>

\* a check that finds no path marked
AlreadyFollowedNever(path) == FALSE

\* if filesFollowed[path]
AlreadyFollowed(path) == path \in filesFollowed

\* the head of the loop of runFiles: the end of the list, a path seen before,
\* or a new path, which is marked before any file is touched
Loop ==
    /\ Running
    /\ pc = "loop"
    /\ IF i > Len(files)
       THEN /\ pc' = "release"
            /\ UNCHANGED <<i, foundNew, filesFollowed>>
       ELSE IF AlreadyFollowed(Abs(files[i]))
       THEN /\ i' = i + 1
            /\ UNCHANGED <<pc, foundNew, filesFollowed>>
       ELSE /\ foundNew' = TRUE
            /\ filesFollowed' = filesFollowed \cup {Abs(files[i])}
            /\ pc' = "getlines"
            /\ i' = i
    /\ UNCHANGED <<cfgVars, envVars, files, multipleFiles, opened, lines, total,
                   newFollowedFiles, r, pass, followedFiles, printerVars,
                   stdout, stderr, exitCode>>

\* a loop that takes the mark off a path it could not open, for a later pass
ReadLinesUnmarks ==
    /\ Running
    /\ pc = "getlines"
    /\ opened' = Append(opened, files[i])
    /\ LET got == GetLines(files[i], head, startAtOffset, numLines) IN
       IF got.panic
       THEN /\ Fatal("panic", 2)
            /\ UNCHANGED <<i, pc, lines, total, filesFollowed>>
       ELSE IF got.err # ""
       THEN /\ stderr' = IF got.err = "open" THEN Append(stderr, "open") ELSE stderr
            /\ filesFollowed' = filesFollowed \ {Abs(files[i])}
            /\ i' = i + 1
            /\ pc' = "loop"
            /\ UNCHANGED <<lines, total, exitCode>>
       ELSE /\ lines' = got.lines
            /\ total' = got.totalLines
            /\ pc' = IF follow THEN "newff" ELSE "println"
            /\ UNCHANGED <<stderr, i, filesFollowed, exitCode>>
    /\ UNCHANGED <<cfgVars, envVars, files, multipleFiles, foundNew,
                   newFollowedFiles, r, pass, followedFiles, printerVars,
                   stdout>>

\* a loop that ends at the first file that cannot be opened
ReadLinesBreak ==
    /\ Running
    /\ pc = "getlines"
    /\ opened' = Append(opened, files[i])
    /\ LET got == GetLines(files[i], head, startAtOffset, numLines) IN
       IF got.panic
       THEN /\ Fatal("panic", 2)
            /\ UNCHANGED <<i, pc, lines, total>>
       ELSE IF got.err # ""
       THEN /\ stderr' = IF got.err = "open" THEN Append(stderr, "open") ELSE stderr
            /\ i' = Len(files) + 1
            /\ pc' = "loop"
            /\ UNCHANGED <<lines, total, exitCode>>
       ELSE /\ lines' = got.lines
            /\ total' = got.totalLines
            /\ pc' = IF follow THEN "newff" ELSE "println"
            /\ UNCHANGED <<stderr, i, exitCode>>
    /\ UNCHANGED <<cfgVars, envVars, files, multipleFiles, filesFollowed, foundNew,
                   newFollowedFiles, r, pass, followedFiles, printerVars,
                   stdout>>

\* input.GetLines(files[i], ...): a file that cannot be opened is reported on
\* the error stream and skipped; else the file is scanned to its end
ReadLines ==
    /\ Running
    /\ pc = "getlines"
    /\ opened' = Append(opened, files[i])
    /\ LET got == GetLines(files[i], head, startAtOffset, numLines) IN
       IF got.panic
       THEN /\ Fatal("panic", 2)
            /\ UNCHANGED <<i, pc, lines, total>>
       ELSE IF got.err # ""
       THEN /\ stderr' = IF got.err = "open" THEN Append(stderr, "open") ELSE stderr
            /\ i' = i + 1
            /\ pc' = "loop"
            /\ UNCHANGED <<lines, total, exitCode>>
       ELSE /\ lines' = got.lines
            /\ total' = got.totalLines
            /\ pc' = IF follow THEN "newff" ELSE "println"
            /\ UNCHANGED <<stderr, i, exitCode>>
    /\ UNCHANGED <<cfgVars, envVars, files, multipleFiles, filesFollowed, foundNew,
                   newFollowedFiles, r, pass, followedFiles, printerVars,
                   stdout>>

\* the tail.Config handed to tail.TailFile; Poll is not set and has its
\* zero value
TailConfig == [Follow |-> TRUE, ReOpen |-> TRUE, Poll |-> FALSE]

\* a FollowedFile whose goroutine does not receive on ff.ch
NewFollowedFileNoReceive(path, size, scanned, ps) ==
    [Path |-> path, offset |-> size, next |-> size, released |-> TRUE,
     unlocks |-> 0, scanned |-> scanned, pass |-> ps, config |-> TailConfig,
     fill |-> 0, tail |-> "send", held |-> <<>>]

\* the FollowedFile NewFollowedFileForPath returns: the tail starts at the
\* size Stat reported, and the goroutine waits on ff.ch.  scanned and pass
\* record the total of the initial read and the pass of the construction;
\* fill is the level of the leaky bucket lb, tail the step the tail is at.
NewFollowedFile(path, size, scanned, ps) ==
    [Path |-> path, offset |-> size, next |-> size, released |-> FALSE,
     unlocks |-> 0, scanned |-> scanned, pass |-> ps, config |-> TailConfig,
     fill |-> 0, tail |-> "send", held |-> <<>>]

\* output.NewFollowedFileForPath(files[i]); on an error the path is skipped
NewFollowedFileForPath ==
    /\ Running
    /\ pc = "newff"
    /\ IF Abs(files[i]) \notin exists
       THEN /\ i' = i + 1
            /\ pc' = "loop"
            /\ UNCHANGED <<followedFiles, newFollowedFiles>>
       ELSE /\ followedFiles' = Append(followedFiles,
                NewFollowedFile(files[i], fileLen[Abs(files[i])], total, pass))
            /\ newFollowedFiles' = Append(newFollowedFiles, Len(followedFiles) + 1)
            /\ pc' = "println"
            /\ i' = i
    /\ UNCHANGED <<cfgVars, envVars, files, multipleFiles, filesFollowed, opened,
                   lines, total, foundNew, r, pass, printerVars, stdout, stderr,
                   exitCode>>

\* if i > 0 && len(files) > 1 { fmt.Println() }
Println ==
    /\ Running
    /\ pc = "println"
    /\ stdout' = IF i > 1 /\ Len(files) > 1
                 THEN Append(stdout, Out("coord", "blank", "", <<>>, 0, pass))
                 ELSE stdout
    /\ pc' = "write"
    /\ UNCHANGED <<cfgVars, envVars, passVars, followedFiles, printerVars,
                   stderr, exitCode>>

\* write(files[i], head, lines, total): one write of the whole window
Write ==
    /\ Running
    /\ pc = "write"
    /\ stdout' = Append(stdout, Out("coord", "window", files[i], lines, 0, pass))
    /\ i' = i + 1
    /\ pc' = "loop"
    /\ UNCHANGED <<cfgVars, envVars, files, multipleFiles, filesFollowed, opened,
                   lines, total, foundNew, newFollowedFiles, r, pass, followedFiles,
                   printerVars, stderr, exitCode>>

\* a release loop that stops one follower short
ToReleaseButLast ==
    IF foundNew THEN SubSeq(newFollowedFiles, 1, Len(newFollowedFiles) - 1) ELSE <<>>

\* the followers the release loop of a pass ranges over
ToRelease == IF foundNew THEN newFollowedFiles ELSE <<>>

\* ff.Unlock(): the send on ff.ch meets the receive of the follower's
\* goroutine, which waits there until it is released
Unlock ==
    /\ Running
    /\ pc = "release"
    /\ r <= Len(ToRelease)
    /\ ~followedFiles[ToRelease[r]].released
    /\ followedFiles' = [followedFiles EXCEPT ![ToRelease[r]] =
                           [@ EXCEPT !.released = TRUE, !.unlocks = @ + 1]]
    /\ r' = r + 1
    /\ UNCHANGED <<cfgVars, envVars, pc, files, multipleFiles, i, filesFollowed,
                   opened, lines, total, foundNew, newFollowedFiles, pass,
                   printerVars, stdout, stderr, exitCode>>

\* a follow goroutine that loops whether or not a pattern was given
ReturnSleeps ==
    /\ Running
    /\ pc = "release"
    /\ r > Len(ToRelease)
    /\ pc' = IF follow THEN "sleep" ELSE "done"
    /\ UNCHANGED <<cfgVars, envVars, passVars, followedFiles, printerVars,
                   stdout, stderr, exitCode>>

\* runFiles returns: the rescan loop sleeps, any other caller is done
Return ==
    /\ Running
    /\ pc = "release"
    /\ r > Len(ToRelease)
    /\ pc' = IF follow /\ Len(args.Glob) > 0 THEN "sleep" ELSE "done"
    /\ UNCHANGED <<cfgVars, envVars, passVars, followedFiles, printerVars,
                   stdout, stderr, exitCode>>

\* time.Sleep(interval) is over
Sleep ==
    /\ Running
    /\ pc = "sleep"
    /\ pc' = "rescan"
    /\ UNCHANGED <<cfgVars, envVars, passVars, followedFiles, printerVars,
                   stdout, stderr, exitCode>>

\* a main that returns after runFiles in every mode
ExitAlways ==
    /\ Running
    /\ pc = "done"
    /\ exitCode' = 0
    /\ UNCHANGED <<cfgVars, envVars, pc, passVars, followedFiles, printerVars,
                   stdout, stderr>>

\* without follow, main returns after runFiles
Exit ==
    /\ Running
    /\ ~follow
    /\ pc = "done"
    /\ exitCode' = 0
    /\ UNCHANGED <<cfgVars, envVars, pc, passVars, followedFiles, printerVars,
                   stdout, stderr>>

\* with follow, main waits for the interrupt signal and returns
Interrupt ==
    /\ Running
    /\ follow
    /\ pc # "main"
    /\ signal' = TRUE
    /\ exitCode' = 0
    /\ UNCHANGED <<cfgVars, exists, fileLen, appends, creates, scanErr, stdin, pc,
                   passVars, followedFiles, printerVars, stdout, stderr>>

\* ------------------------------------------------------------ the followers
\* a goroutine that does not wait on ff.ch
ReleasedNoGate(ff) == TRUE

\* <-ff.ch has returned
Released(ff) == ff.released

\* a tail that delivers the newest line of the file
NextLineNewest(ff) == fileLen[Abs(ff.Path)]

\* the next line the tail delivers on ff.Tail.Lines
NextLine(ff) == ff.next + 1

\* util.CheckMatch: no -m pattern is set, every line matches
CheckMatch(line) == TRUE

\* a send that returns at once, whatever the printer's goroutine is doing
printNoWait(path, line, f) ==
    /\ m' = [path |-> path, line |-> line, ff |-> f]
    /\ ppc' = "got"

\* p.print(path, line): the send on the unbuffered messages channel meets the
\* receive of the printer's goroutine, which then holds the message
print(path, line, f) ==
    /\ ppc = "recv"
    /\ m' = [path |-> path, line |-> line, ff |-> f]
    /\ ppc' = "got"

\* getContent(input): the line is a log line, a prefix and a payload that is
\* valid JSON; of the lines of the model the even ones are
getContent(input) == input > 0 /\ input % 2 = 0

\* fmt.Sprintf("%s, %s", jl.prefix, jl.json): the text of a log line with a
\* comma between the trimmed prefix and the payload, the negative of the line
PrefixCommaJSON(input) == 0 - input

\* output.GetOutput(input) of a run without -j and without the JSON-only
\* flag: a log line is put together again from its prefix and its payload,
\* any other line is printed as it is, and no line gives an error
GetOutput(input) ==
    IF getContent(input)
    THEN [output |-> PrefixCommaJSON(input), err |-> FALSE]
    ELSE [output |-> input, err |-> FALSE]

\* the goroutine of a follower, past the gate, receives the next line of the
\* tail from ff.Tail.Lines; a line that matches and has an output is held
\* for the printer
FollowerTake(f) ==
    /\ Running
    /\ Released(followedFiles[f])
    /\ followedFiles[f].held = <<>>
    /\ followedFiles[f].next < fileLen[Abs(followedFiles[f].Path)]
    /\ LET line == NextLine(followedFiles[f])
           out == GetOutput(line) IN
       followedFiles' = [followedFiles EXCEPT
           ![f].next = @ + 1,
           ![f].held = IF CheckMatch(line) /\ ~out.err THEN <<out.output>> ELSE <<>>]
    /\ UNCHANGED <<cfgVars, envVars, pc, passVars, printerVars, stdout, stderr,
                   exitCode>>

\* a follower that sets the printer's path itself before it sends its line
FollowerPrintSetsPath(f) ==
    /\ Running
    /\ followedFiles[f].held # <<>>
    /\ print(followedFiles[f].Path, followedFiles[f].held[1], f)
    /\ followedFiles' = [followedFiles EXCEPT ![f].held = <<>>]
    /\ currentPath' = followedFiles[f].Path
    /\ UNCHANGED <<cfgVars, envVars, pc, passVars, stdout, stderr, exitCode>>

\* outputPrinter.print(ff.Path, output): the goroutine of the follower waits
\* in the send with the line it holds until the printer receives it
FollowerPrint(f) ==
    /\ Running
    /\ followedFiles[f].held # <<>>
    /\ print(followedFiles[f].Path, followedFiles[f].held[1], f)
    /\ followedFiles' = [followedFiles EXCEPT ![f].held = <<>>]
    /\ UNCHANGED <<cfgVars, envVars, pc, passVars, currentPath, stdout, stderr,
                   exitCode>>

\* -------------------------------------------------------------- the printer
\* a comparison that never finds a new path
SamePathAlways(msg) == TRUE

\* a comparison that finds a new path in every message
SamePathNever(msg) == FALSE

\* outputPrinter.getPath() == m.path
SamePath(msg) == currentPath = msg.path

\* the goroutine of newLinePrinter with a message: the line alone, or the new
\* path is set and the blank line printed
PrinterReceive ==
    /\ Running
    /\ ppc = "got"
    /\ IF SamePath(m)
       THEN /\ stdout' = Append(stdout, Out("printer", "line", m.path, <<m.line>>, m.ff, 0))
            /\ ppc' = "recv"
            /\ UNCHANGED currentPath
       ELSE /\ currentPath' = m.path
            /\ stdout' = Append(stdout, Out("printer", "blank", m.path, <<>>, m.ff, 0))
            /\ ppc' = "header"
    /\ UNCHANGED <<cfgVars, envVars, pc, passVars, followedFiles, m, stderr, exitCode>>

\* fmt.Println(Colour(BrightBlue, "==> path <=="))
PrinterHeader ==
    /\ Running
    /\ ppc = "header"
    /\ stdout' = Append(stdout, Out("printer", "header", m.path, <<>>, m.ff, 0))
    /\ ppc' = "line"
    /\ UNCHANGED <<cfgVars, envVars, pc, passVars, followedFiles, currentPath, m,
                   stderr, exitCode>>

\* fmt.Println(m.line) after the header
PrinterLine ==
    /\ Running
    /\ ppc = "line"
    /\ stdout' = Append(stdout, Out("printer", "line", m.path, <<m.line>>, m.ff, 0))
    /\ ppc' = "recv"
    /\ UNCHANGED <<cfgVars, envVars, pc, passVars, followedFiles, currentPath, m,
                   stderr, exitCode>>

Next ==
    \/ \E p \in AbsPaths : AppendLine(p)
    \/ \E p \in AbsPaths : CreateFile(p)
    \/ Main
    \/ Rescan
    \/ Loop
    \/ ReadLines
    \/ NewFollowedFileForPath
    \/ Println
    \/ Write
    \/ Unlock
    \/ Return
    \/ Sleep
    \/ Exit
    \/ \E f \in DOMAIN followedFiles : FollowerTake(f)
    \/ \E f \in DOMAIN followedFiles : FollowerPrint(f)
    \/ PrinterReceive
    \/ PrinterHeader
    \/ PrinterLine

Spec == Init /\ [][Next]_vars

\* ------------------------------------------------- the printer under test
\* the paths a test passes to print
PrintPaths == {"", "a", "b"}

\* a fresh printer (newLinePrinter: setPath(""), the goroutine waiting on the
\* channel) and the calls a test is going to make, all from one goroutine
PrinterInit ==
    /\ calls \in UNION {[1..n -> PrintPaths] : n \in 0..MaxCalls}
    /\ sent = 0
    /\ currentPath = ""
    /\ m = NoMsg
    /\ ppc = "recv"
    /\ stdout = <<>>
    /\ stderr = <<>>
    /\ exitCode = -1
    /\ args = [Glob |-> <<>>, Files |-> <<>>]
    /\ follow = FALSE
    /\ head = FALSE
    /\ startAtOffset = FALSE
    /\ numLines = NumLinesArg
    /\ interval = 1
    /\ rlimitErr = FALSE
    /\ outputPrinter = newLinePrinter(NilPrinter)
    /\ exists = {}
    /\ fileLen = [p \in AbsPaths |-> 0]
    /\ appends = 0
    /\ creates = 0
    /\ signal = FALSE
    /\ scanErr = [p \in AbsPaths |-> 0]
    /\ stdin = NoStdin
    /\ pc = "test"
    /\ files = <<>>
    /\ multipleFiles = FALSE
    /\ i = 1
    /\ filesFollowed = {}
    /\ opened = <<>>
    /\ lines = <<>>
    /\ total = 0
    /\ foundNew = FALSE
    /\ followedFiles = <<>>
    /\ newFollowedFiles = <<>>
    /\ r = 1
    /\ pass = 0

\* the test calls printer.print(path, line); the line is the call's number
PrintCall ==
    /\ Running
    /\ sent < Len(calls)
    /\ print(calls[sent + 1], sent + 1, 0)
    /\ sent' = sent + 1
    /\ UNCHANGED <<args, follow, head, startAtOffset, numLines, interval,
                   rlimitErr, outputPrinter, calls, envVars,
                   pc, passVars, followedFiles, currentPath, stdout, stderr,
                   exitCode>>

PrinterNext ==
    \/ PrintCall
    \/ PrinterReceive
    \/ PrinterHeader
    \/ PrinterLine

PrinterSpec == PrinterInit /\ [][PrinterNext]_vars

\* ------------------------------------------- files that come and go
\* the runs of a directory whose files are removed and made again: a pattern
\* with a path that does not exist, and two paths
ChurnArgs == {[Glob |-> <<"*">>, Files |-> <<"b">>],
              [Glob |-> <<>>, Files |-> <<"a", "b">>]}

ChurnInit ==
    /\ args \in ChurnArgs
    /\ follow \in BOOLEAN
    /\ head = FALSE
    /\ startAtOffset = FALSE
    /\ numLines = NumLinesArg
    /\ interval = 1
    /\ rlimitErr = FALSE
    /\ outputPrinter = newLinePrinter(NilPrinter)
    /\ exists = IF Len(args.Glob) > 0 THEN {"/a"} ELSE {"/a", "/b"}
    /\ fileLen = [p \in AbsPaths |-> IF p \in exists THEN InitLines ELSE 0]
    /\ appends = 0
    /\ creates = 0
    /\ signal = FALSE
    /\ scanErr = [p \in AbsPaths |-> 0]
    /\ stdin = NoStdin
    /\ pc = "main"
    /\ files = <<>>
    /\ multipleFiles = FALSE
    /\ i = 1
    /\ filesFollowed = {}
    /\ lines = <<>>
    /\ total = 0
    /\ foundNew = FALSE
    /\ followedFiles = <<>>
    /\ newFollowedFiles = <<>>
    /\ r = 1
    /\ pass = 0
    /\ currentPath = ""
    /\ m = NoMsg
    /\ ppc = "recv"
    /\ stdout = <<>>
    /\ stderr = <<>>
    /\ exitCode = -1
    /\ opened = <<>>
    /\ calls = <<>>
    /\ sent = 0

\* another process removes a file; a file made again under the name is new
RemoveFile(p) ==
    /\ Running
    /\ p \in exists
    /\ exists' = exists \ {p}
    /\ UNCHANGED <<cfgVars, fileLen, appends, creates, signal, scanErr, stdin, pc, passVars,
                   followedFiles, printerVars, stdout, stderr, exitCode>>

ChurnNext ==
    \/ Next
    \/ \E p \in AbsPaths : RemoveFile(p)

ChurnSpec == ChurnInit /\ [][ChurnNext]_vars

\* ------------------------------------------------ the printer's constructor
\* the package before its init function has run, and the test to come: its
\* calls of print and of newLinePrinter
SingletonInit ==
    /\ calls \in UNION {[1..n -> PrintPaths] : n \in 0..MaxCalls}
    /\ sent = 0
    /\ outputPrinter = NilPrinter
    /\ currentPath = ""
    /\ m = NoMsg
    /\ ppc = "recv"
    /\ stdout = <<>>
    /\ stderr = <<>>
    /\ exitCode = -1
    /\ args = [Glob |-> <<>>, Files |-> <<>>]
    /\ follow = FALSE
    /\ head = FALSE
    /\ startAtOffset = FALSE
    /\ numLines = NumLinesArg
    /\ interval = 1
    /\ rlimitErr = FALSE
    /\ exists = {}
    /\ fileLen = [p \in AbsPaths |-> 0]
    /\ appends = 0
    /\ creates = 0
    /\ signal = FALSE
    /\ scanErr = [p \in AbsPaths |-> 0]
    /\ stdin = NoStdin
    /\ pc = "pkginit"
    /\ files = <<>>
    /\ multipleFiles = FALSE
    /\ i = 1
    /\ filesFollowed = {}
    /\ opened = <<>>
    /\ lines = <<>>
    /\ total = 0
    /\ foundNew = FALSE
    /\ followedFiles = <<>>
    /\ newFollowedFiles = <<>>
    /\ r = 1
    /\ pass = 0

\* init of package output: outputPrinter = newLinePrinter(), which sets the
\* empty path on the instance it makes
PackageInit ==
    /\ pc = "pkginit"
    /\ outputPrinter' = newLinePrinter(outputPrinter)
    /\ currentPath' = ""
    /\ pc' = "test"
    /\ UNCHANGED <<args, follow, head, startAtOffset, numLines, interval, rlimitErr,
                   calls, sent, envVars, passVars, followedFiles, m, ppc, stdout,
                   stderr, exitCode>>

\* lp := newLinePrinter() in a test or a benchmark, at any moment of the
\* printing; a constructor that makes a channel sets the empty path too
TestLinePrinter ==
    /\ pc = "test"
    /\ outputPrinter.news < MaxNew
    /\ LET lp == newLinePrinter(outputPrinter) IN
       /\ outputPrinter' = [lp EXCEPT !.news = @ + 1,
                                      !.returned = @ \cup {lp.instance}]
       /\ currentPath' = IF lp.made # outputPrinter.made THEN "" ELSE currentPath
    /\ UNCHANGED <<args, follow, head, startAtOffset, numLines, interval, rlimitErr,
                   calls, sent, envVars, pc, passVars, followedFiles, m, ppc, stdout,
                   stderr, exitCode>>

\* printer.print(path, line) of a test or a benchmark
TestPrint == pc = "test" /\ PrintCall

SingletonNext ==
    \/ PackageInit
    \/ TestLinePrinter
    \/ TestPrint
    \/ PrinterReceive
    \/ PrinterHeader
    \/ PrinterLine

SingletonSpec == SingletonInit /\ [][SingletonNext]_vars

\* ------------------------------------------- the printer with the mutex
\* newPrinter of the printer that locks: a mutex and the empty path
newPrinter == [currentPath |-> "", out |-> <<>>]

\* a print under the mutex that forgets to set the new path
MutexPrintKeepsPath(p, path, line) ==
    IF p.currentPath = path
    THEN [p EXCEPT !.out = Append(@, Out("printer", "line", path, <<line>>, 0, 0))]
    ELSE [currentPath |-> p.currentPath,
          out |-> p.out \o <<Out("printer", "blank", path, <<>>, 0, 0),
                             Out("printer", "header", path, <<>>, 0, 0),
                             Out("printer", "line", path, <<line>>, 0, 0)>>]

\* p.print(path, line) under p.mu: the line alone for the path of the call
\* before, else the path is set and a blank line, the header and the line are
\* printed
MutexPrint(p, path, line) ==
    IF p.currentPath = path
    THEN [p EXCEPT !.out = Append(@, Out("printer", "line", path, <<line>>, 0, 0))]
    ELSE [currentPath |-> path,
          out |-> p.out \o <<Out("printer", "blank", path, <<>>, 0, 0),
                             Out("printer", "header", path, <<>>, 0, 0),
                             Out("printer", "line", path, <<line>>, 0, 0)>>]

\* the printer with the mutex after the first n calls of the test, which the
\* mutex serializes in the order they take it
RECURSIVE MutexRun(_)
MutexRun(n) ==
    IF n = 0 THEN newPrinter
    ELSE MutexPrint(MutexRun(n - 1), calls[n], n)

\* the steps of main and of the follow goroutine, which the scheduler runs
\* whenever they can be taken; the sleep of the rescan loop is finite
Coordinator ==
    \/ Main
    \/ Rescan
    \/ Loop
    \/ ReadLines
    \/ NewFollowedFileForPath
    \/ Println
    \/ Write
    \/ Unlock
    \/ Return
    \/ Sleep
    \/ Exit

FairSpec == Spec /\ WF_vars(Coordinator)

\* ------------------------------------------------------- GetLines alone
\* runFiles about to call GetLines for the one file of its list, for every
\* length of the file, every -n value and every mode; the file may be missing
GetLinesInit ==
    /\ fileLen \in [AbsPaths -> 0..MaxFileLines]
    /\ \A p \in AbsPaths : p # "/a" => fileLen[p] = 0
    /\ exists \in {{"/a"}, {}}
    /\ "/a" \notin exists => fileLen["/a"] = 0
    /\ numLines \in 0..MaxWanted
    /\ interval = 1
    /\ rlimitErr = FALSE
    /\ outputPrinter = newLinePrinter(NilPrinter)
    /\ head \in BOOLEAN
    /\ startAtOffset \in BOOLEAN
    /\ startAtOffset => head
    /\ args = [Glob |-> <<>>, Files |-> <<"a">>]
    /\ follow = FALSE
    /\ files = <<"a">>
    /\ multipleFiles = FALSE
    /\ pc = "getlines"
    /\ i = 1
    /\ pass = 1
    /\ foundNew = TRUE
    /\ filesFollowed = {"/a"}
    /\ opened = <<>>
    /\ lines = <<>>
    /\ total = 0
    /\ appends = 0
    /\ creates = 0
    /\ signal = FALSE
    /\ scanErr \in [AbsPaths -> 0..(MaxFileLines + 1)]
    /\ \A p \in AbsPaths : p # "/a" => scanErr[p] = 0
    /\ scanErr["/a"] <= fileLen["/a"] + 1
    /\ "/a" \notin exists => scanErr["/a"] = 0
    /\ stdin = NoStdin
    /\ followedFiles = <<>>
    /\ newFollowedFiles = <<>>
    /\ r = 1
    /\ currentPath = ""
    /\ m = NoMsg
    /\ ppc = "recv"
    /\ stdout = <<>>
    /\ stderr = <<>>
    /\ exitCode = -1
    /\ calls = <<>>
    /\ sent = 0

GetLinesNext ==
    \/ ReadLines
    \/ Println
    \/ Write

GetLinesSpec == GetLinesInit /\ [][GetLinesNext]_vars

\* ------------------------------------------- the scan loops of GetLines
\* GetLines after it has opened the file and made the empty slice: the scanner
\* is before line i, for every length of the file, every -n value and mode
ScanInit ==
    /\ fileLen \in [AbsPaths -> 0..MaxFileLines]
    /\ \A p \in AbsPaths : p # "/a" => fileLen[p] = 0
    /\ exists = {"/a"}
    /\ numLines \in 0..MaxWanted
    /\ interval = 1
    /\ rlimitErr = FALSE
    /\ outputPrinter = newLinePrinter(NilPrinter)
    /\ head \in BOOLEAN
    /\ startAtOffset \in BOOLEAN
    /\ startAtOffset => head
    /\ args = [Glob |-> <<>>, Files |-> <<"a">>]
    /\ follow = FALSE
    /\ files = <<"a">>
    /\ multipleFiles = FALSE
    /\ pc = "scan"
    /\ i = 1
    /\ pass = 1
    /\ foundNew = TRUE
    /\ filesFollowed = {"/a"}
    /\ opened = <<>>
    /\ lines = <<>>
    /\ total = IF head /\ startAtOffset THEN 1 ELSE 0
    /\ appends = 0
    /\ creates = 0
    /\ signal = FALSE
    /\ scanErr \in [AbsPaths -> 0..(MaxFileLines + 1)]
    /\ \A p \in AbsPaths : p # "/a" => scanErr[p] = 0
    /\ scanErr["/a"] <= fileLen["/a"] + 1
    /\ stdin = NoStdin
    /\ followedFiles = <<>>
    /\ newFollowedFiles = <<>>
    /\ r = 1
    /\ currentPath = ""
    /\ m = NoMsg
    /\ ppc = "recv"
    /\ stdout = <<>>
    /\ stderr = <<>>
    /\ exitCode = -1
    /\ calls = <<>>
    /\ sent = 0

\* scanner.Scan() returns true: there is a line after the i-1 scanned ones
\* and the scanner can deliver it
ScanMore == pc = "scan" /\ i <= fileLen["/a"] /\ i # scanErr["/a"]

\* scanner.Text() of the line the scanner is on
ScanText == Content(fileLen["/a"])[i]

\* one iteration of the offset loop
OffsetIter ==
    /\ ScanMore /\ head /\ startAtOffset
    /\ lines' = IF total >= numLines THEN Append(lines, ScanText) ELSE lines
    /\ total' = total + 1
    /\ i' = i + 1
    /\ UNCHANGED <<args, follow, head, startAtOffset, numLines, interval, rlimitErr, outputPrinter,
                   calls, sent, envVars, pc, files, multipleFiles, filesFollowed,
                   opened, foundNew, followedFiles, newFollowedFiles, r, pass,
                   printerVars, stdout, stderr, exitCode>>

\* one iteration of the head loop
HeadIter ==
    /\ ScanMore /\ head /\ ~startAtOffset
    /\ lines' = IF total < numLines THEN Append(lines, ScanText) ELSE lines
    /\ total' = total + 1
    /\ i' = i + 1
    /\ UNCHANGED <<args, follow, head, startAtOffset, numLines, interval, rlimitErr, outputPrinter,
                   calls, sent, envVars, pc, files, multipleFiles, filesFollowed,
                   opened, foundNew, followedFiles, newFollowedFiles, r, pass,
                   printerVars, stdout, stderr, exitCode>>

\* an iteration of the tail loop that evicts nothing
TailIterKeepsAll ==
    /\ ScanMore /\ ~head
    /\ lines' = Append(lines, ScanText)
    /\ total' = total + 1
    /\ i' = i + 1
    /\ UNCHANGED <<args, follow, head, startAtOffset, numLines, interval, rlimitErr, outputPrinter,
                   calls, sent, envVars, pc, files, multipleFiles, filesFollowed,
                   opened, foundNew, followedFiles, newFollowedFiles, r, pass,
                   printerVars, stdout, stderr, exitCode>>

\* one iteration of the tail loop: append, count, evict the oldest line
TailIter ==
    /\ ScanMore /\ ~head
    /\ lines' = IF total + 1 > numLines
                THEN Tail(Append(lines, ScanText))
                ELSE Append(lines, ScanText)
    /\ total' = total + 1
    /\ i' = i + 1
    /\ UNCHANGED <<args, follow, head, startAtOffset, numLines, interval, rlimitErr, outputPrinter,
                   calls, sent, envVars, pc, files, multipleFiles, filesFollowed,
                   opened, foundNew, followedFiles, newFollowedFiles, r, pass,
                   printerVars, stdout, stderr, exitCode>>

\* scanner.Scan() returns false: with scanner.Err() GetLines returns no
\* lines, the total and the error, else lines and totalLines
ScanReturn ==
    /\ pc = "scan" /\ ~ScanMore
    /\ IF scanErr["/a"] # 0
       THEN lines' = <<>> /\ pc' = "failed"
       ELSE pc' = "returned" /\ UNCHANGED lines
    /\ UNCHANGED <<cfgVars, envVars, files, multipleFiles, i, filesFollowed, opened,
                   total, foundNew, newFollowedFiles, r, pass, followedFiles,
                   printerVars, stdout, stderr, exitCode>>

ScanNext ==
    \/ OffsetIter
    \/ HeadIter
    \/ TailIter
    \/ ScanReturn

ScanSpec == ScanInit /\ [][ScanNext]_vars

\* ------------------------------------------------------ expandGlobs alone
\* the -G patterns of a run: well-formed and malformed ones in every order
GlobArgs == UNION {[1..n -> {"*", "["}] : n \in 0..MaxGlobs}

\* main about to resolve its file set, for every list of patterns, every list
\* of explicit paths and every content of the working directory
ResolveInit ==
    /\ args \in {[Glob |-> g, Files |-> f] : g \in GlobArgs, f \in ArgFiles}
    /\ follow \in BOOLEAN
    /\ head = FALSE
    /\ startAtOffset = FALSE
    /\ numLines = NumLinesArg
    /\ interval = 1
    /\ rlimitErr = FALSE
    /\ outputPrinter = newLinePrinter(NilPrinter)
    /\ exists \in SUBSET AbsPaths
    /\ fileLen = [p \in AbsPaths |-> IF p \in exists THEN InitLines ELSE 0]
    /\ appends = 0
    /\ creates = 0
    /\ signal = FALSE
    /\ scanErr = [p \in AbsPaths |-> 0]
    /\ stdin = NoStdin
    /\ pc = "main"
    /\ files = <<>>
    /\ multipleFiles = FALSE
    /\ i = 1
    /\ filesFollowed = {}
    /\ lines = <<>>
    /\ total = 0
    /\ foundNew = FALSE
    /\ followedFiles = <<>>
    /\ newFollowedFiles = <<>>
    /\ r = 1
    /\ pass = 0
    /\ currentPath = ""
    /\ m = NoMsg
    /\ ppc = "recv"
    /\ stdout = <<>>
    /\ stderr = <<>>
    /\ exitCode = -1
    /\ opened = <<>>
    /\ calls = <<>>
    /\ sent = 0

\* the startup resolution and the resolution of the rescan loop
ResolveNext ==
    \/ Main
    \/ Rescan

ResolveSpec == ResolveInit /\ [][ResolveNext]_vars

\* ---------------------------------------------- one follower and its bucket
\* The tail of a follower with RateLimiter lb, as tailFileSync and sendLine
\* of github.com/nxadm/tail run it: a line is sent on Lines, then poured into
\* the bucket; when the bucket is full the tail sends a notice as a line,
\* waits a second and seeks to the end of the file.  The runs of Spec stay
\* within the bucket, where the tail only sends and pours.

\* gotail -f a after its pass: the window is written, the follower released
LimiterInit ==
    /\ args = [Glob |-> <<>>, Files |-> <<"a">>]
    /\ rlimitErr = FALSE
    /\ outputPrinter = newLinePrinter(NilPrinter)
    /\ follow = TRUE
    /\ head = FALSE
    /\ startAtOffset = FALSE
    /\ numLines = NumLinesArg
    /\ interval = 1
    /\ exists \in InitExists
    /\ fileLen = [p \in AbsPaths |-> IF p \in exists THEN InitLines ELSE 0]
    /\ appends = 0
    /\ creates = 0
    /\ signal = FALSE
    /\ scanErr = [p \in AbsPaths |-> 0]
    /\ stdin = NoStdin
    /\ pc = "done"
    /\ files = <<"a">>
    /\ multipleFiles = FALSE
    /\ i = 2
    /\ filesFollowed = {"/a"}
    /\ lines = GetLines("a", FALSE, FALSE, NumLinesArg).lines
    /\ total = InitLines
    /\ foundNew = TRUE
    /\ followedFiles = <<[NewFollowedFile("a", InitLines, InitLines, 1)
                             EXCEPT !.released = TRUE, !.unlocks = 1]>>
    /\ newFollowedFiles = <<1>>
    /\ r = 2
    /\ pass = 1
    /\ currentPath = ""
    /\ m = NoMsg
    /\ ppc = "recv"
    /\ stdout = <<Out("coord", "window", "a", lines, 0, 1)>>
    /\ stderr = <<>>
    /\ exitCode = -1
    /\ opened = <<"a">>
    /\ calls = <<>>
    /\ sent = 0

\* a writer appends one line of a burst to the followed file
BurstAppend(p) ==
    /\ Running
    /\ p \in exists
    /\ appends < MaxBurst
    /\ fileLen' = [fileLen EXCEPT ![p] = @ + 1]
    /\ appends' = appends + 1
    /\ UNCHANGED <<cfgVars, exists, creates, signal, scanErr, stdin, pc, passVars, followedFiles,
                   printerVars, stdout, stderr, exitCode>>

\* the tail sends its next line on Lines, which has no buffer: the send
\* meets the receive of the follower's goroutine, which holds the line for
\* the printer when it matches and has an output
TailSend(f) ==
    /\ Running
    /\ Released(followedFiles[f])
    /\ followedFiles[f].tail = "send"
    /\ followedFiles[f].held = <<>>
    /\ followedFiles[f].next < fileLen[Abs(followedFiles[f].Path)]
    /\ LET line == NextLine(followedFiles[f])
           out == GetOutput(line) IN
       followedFiles' = [followedFiles EXCEPT
           ![f].next = @ + 1,
           ![f].tail = "pour",
           ![f].held = IF CheckMatch(line) /\ ~out.err THEN <<out.output>> ELSE <<>>]
    /\ UNCHANGED <<cfgVars, envVars, pc, passVars, printerVars, stdout, stderr,
                   exitCode>>

\* RateLimiter.Pour(1) for the line sent: false when the bucket is full
TailPour(f) ==
    /\ Running
    /\ followedFiles[f].tail = "pour"
    /\ followedFiles' =
          IF followedFiles[f].fill + 1 > BucketSize
          THEN [followedFiles EXCEPT ![f].tail = "notice"]
          ELSE [followedFiles EXCEPT ![f].fill = @ + 1, ![f].tail = "send"]
    /\ UNCHANGED <<cfgVars, envVars, pc, passVars, printerVars, stdout, stderr,
                   exitCode>>

\* the bucket leaks one unit per leak interval
Leak(f) ==
    /\ Running
    /\ followedFiles[f].fill > 0
    /\ followedFiles' = [followedFiles EXCEPT ![f].fill = @ - 1]
    /\ UNCHANGED <<cfgVars, envVars, pc, passVars, printerVars, stdout, stderr,
                   exitCode>>

\* the tail sends its notice of too much activity as a line; the follower
\* prints its text like any other (0 stands for the text, which is no line
\* of the file)
TailNotice(f) ==
    /\ Running
    /\ followedFiles[f].tail = "notice"
    /\ followedFiles[f].held = <<>>
    /\ LET out == GetOutput(0) IN
       followedFiles' = [followedFiles EXCEPT
           ![f].tail = "cooloff",
           ![f].held = IF CheckMatch(0) /\ ~out.err THEN <<out.output>> ELSE <<>>]
    /\ UNCHANGED <<cfgVars, envVars, pc, passVars, printerVars, stdout, stderr,
                   exitCode>>

\* after the second of cool-off the tail seeks to the end of the file; the
\* bucket has leaked empty meanwhile
TailResume(f) ==
    /\ Running
    /\ followedFiles[f].tail = "cooloff"
    /\ followedFiles' = [followedFiles EXCEPT
                           ![f].next = fileLen[Abs(followedFiles[f].Path)],
                           ![f].fill = 0, ![f].tail = "send"]
    /\ UNCHANGED <<cfgVars, envVars, pc, passVars, printerVars, stdout, stderr,
                   exitCode>>

LimiterNext ==
    \/ \E p \in AbsPaths : BurstAppend(p)
    \/ \E f \in DOMAIN followedFiles : TailSend(f)
    \/ \E f \in DOMAIN followedFiles : TailPour(f)
    \/ \E f \in DOMAIN followedFiles : Leak(f)
    \/ \E f \in DOMAIN followedFiles : TailNotice(f)
    \/ \E f \in DOMAIN followedFiles : FollowerPrint(f)
    \/ \E f \in DOMAIN followedFiles : TailResume(f)
    \/ PrinterReceive
    \/ PrinterHeader
    \/ PrinterLine

LimiterSpec == LimiterInit /\ [][LimiterNext]_vars

\* ------------------------------------------------------ the arguments
\* the -n values of a run: none, digits, an offset, and malformed ones
NumLinesStrs ==
    {<<>>, <<"1">>, <<"+", "1">>, <<"+", "2">>, <<"a">>, <<"+", "1", "a">>,
     <<"+">>, <<"+", "+", "1">>, <<"+", "-", "1">>}

\* what is piped into a run: lines the scanner reads, or fails to read
PipedStdin == {[piped |-> TRUE, len |-> InitLines, bad |-> b] : b \in {0, InitLines}}

\* the -i values of a run
Intervals == {-1, 0, 1}

\* the parsed arguments of a run
FlagArgs ==
    {[Glob |-> g.Glob, Files |-> g.Files, Follow |-> f, Head |-> h,
      NumLinesStr |-> n, Interval |-> v] :
        g \in {[Glob |-> <<>>, Files |-> <<>>], [Glob |-> <<>>, Files |-> <<"a">>],
               [Glob |-> <<>>, Files |-> <<"b", "a">>], [Glob |-> <<"*">>, Files |-> <<>>]},
        f \in BOOLEAN, h \in BOOLEAN, n \in NumLinesStrs, v \in Intervals}

\* the process after init and arg.MustParse: the package variables have
\* their zero values, setrlimit has failed or not
FlagsInit ==
    /\ args \in FlagArgs
    /\ rlimitErr \in BOOLEAN
    /\ outputPrinter = newLinePrinter(NilPrinter)
    /\ follow = FALSE
    /\ head = FALSE
    /\ startAtOffset = FALSE
    /\ numLines = 0
    /\ interval = 0
    /\ exists \in InitExists
    /\ fileLen = [p \in AbsPaths |-> IF p \in exists THEN InitLines ELSE 0]
    /\ appends = 0
    /\ creates = 0
    /\ signal = FALSE
    /\ scanErr = [p \in AbsPaths |-> 0]
    /\ stdin \in PipedStdin \cup {NoStdin}
    /\ pc = "parse"
    /\ files = <<>>
    /\ multipleFiles = FALSE
    /\ i = 1
    /\ filesFollowed = {}
    /\ lines = <<>>
    /\ total = 0
    /\ foundNew = FALSE
    /\ followedFiles = <<>>
    /\ newFollowedFiles = <<>>
    /\ r = 1
    /\ pass = 0
    /\ currentPath = ""
    /\ m = NoMsg
    /\ ppc = "recv"
    /\ stdout = <<>>
    /\ stderr = <<>>
    /\ exitCode = -1
    /\ opened = <<>>
    /\ calls = <<>>
    /\ sent = 0

\* main and the follow goroutine, with no writer and no signal
FlagsNext ==
    \/ ParseArgs
    \/ Main
    \/ Rescan
    \/ Loop
    \/ ReadLines
    \/ NewFollowedFileForPath
    \/ Println
    \/ Write
    \/ Unlock
    \/ Return
    \/ Sleep
    \/ Exit

FlagsSpec == FlagsInit /\ [][FlagsNext]_vars

\* ------------------------------------------- the single-pass gotail.go
\* newFollowedFileForPath of the single-pass program: a config is built from
\* the flags followTrack and usePolling, and tail.TailFile is called with a
\* config literal of its own
newFollowedFileForPath(path, size, scanned, followTrack, usePolling) ==
    LET config == [Follow |-> TRUE, ReOpen |-> followTrack, Poll |-> usePolling]
        passed == [Follow |-> TRUE, ReOpen |-> TRUE, Poll |-> FALSE]
    IN [Path |-> path, offset |-> size, next |-> size, released |-> FALSE,
        unlocks |-> 0, scanned |-> scanned, pass |-> 1, config |-> passed,
        fill |-> 0, tail |-> "send", held |-> <<>>]

\* the flags and paths of a run of the single-pass program
LegacyArgs ==
    {[Files |-> p, Follow |-> f, FollowTrack |-> t, Polling |-> u, Head |-> h] :
        p \in {<<"a">>, <<"a", "b">>, <<"b", "a">>},
        f \in BOOLEAN, t \in BOOLEAN, u \in BOOLEAN, h \in BOOLEAN}

LegacyInit ==
    /\ args \in LegacyArgs
    /\ rlimitErr = FALSE
    /\ outputPrinter = newLinePrinter(NilPrinter)
    /\ follow = FALSE
    /\ head = FALSE
    /\ startAtOffset = FALSE
    /\ numLines = NumLinesArg
    /\ interval = 0
    /\ exists \in InitExists
    /\ fileLen = [p \in AbsPaths |-> IF p \in exists THEN InitLines ELSE 0]
    /\ appends = 0
    /\ creates = 0
    /\ signal = FALSE
    /\ scanErr = [p \in AbsPaths |-> 0]
    /\ stdin = NoStdin
    /\ pc = "flags"
    /\ files = <<>>
    /\ multipleFiles = FALSE
    /\ i = 1
    /\ filesFollowed = {}
    /\ lines = <<>>
    /\ total = 0
    /\ foundNew = FALSE
    /\ followedFiles = <<>>
    /\ newFollowedFiles = <<>>
    /\ r = 1
    /\ pass = 1
    /\ currentPath = ""
    /\ m = NoMsg
    /\ ppc = "recv"
    /\ stdout = <<>>
    /\ stderr = <<>>
    /\ exitCode = -1
    /\ opened = <<>>
    /\ calls = <<>>
    /\ sent = 0

\* main of the single-pass program up to its loop: -F implies follow, head
\* switches follow off, the arguments are the paths
LegacyFlags ==
    /\ Running
    /\ pc = "flags"
    /\ follow' = IF args.Head THEN FALSE ELSE (args.Follow \/ args.FollowTrack)
    /\ head' = args.Head
    /\ files' = args.Files
    /\ multipleFiles' = (Len(args.Files) > 1)
    /\ pc' = "args"
    /\ UNCHANGED <<args, startAtOffset, numLines, interval, rlimitErr, outputPrinter, calls, sent,
                   envVars, i, filesFollowed, opened, lines, total, foundNew,
                   newFollowedFiles, r, pass, followedFiles, printerVars, stdout,
                   stderr, exitCode>>

\* one turn of the loop over the paths: the lines, the follower, the window
LegacyFile ==
    /\ Running
    /\ pc = "args"
    /\ i <= Len(files)
    /\ opened' = Append(opened, files[i])
    /\ i' = i + 1
    /\ LET got == GetLines(files[i], head, startAtOffset, numLines)
           blank == IF i > 1 /\ Len(files) > 1
                    THEN <<Out("coord", "blank", "", <<>>, 0, pass)>>
                    ELSE <<>>
       IN
       IF got.panic
       THEN /\ Fatal("panic", 2)
            /\ UNCHANGED <<lines, total, followedFiles, stdout>>
       ELSE IF got.err # ""
       THEN /\ stderr' = IF got.err = "open" THEN Append(stderr, "open") ELSE stderr
            /\ UNCHANGED <<lines, total, followedFiles, stdout, exitCode>>
       ELSE /\ lines' = got.lines
            /\ total' = got.totalLines
            /\ followedFiles' =
                  IF ~head /\ follow
                  THEN Append(followedFiles,
                           newFollowedFileForPath(files[i], fileLen[Abs(files[i])],
                               got.totalLines, args.FollowTrack, args.Polling))
                  ELSE followedFiles
            /\ stdout' = stdout \o blank \o
                            <<Out("coord", "window", files[i], got.lines, 0, pass)>>
            /\ UNCHANGED <<stderr, exitCode>>
    /\ UNCHANGED <<cfgVars, envVars, pc, files, multipleFiles, filesFollowed,
                   foundNew, newFollowedFiles, r, pass, printerVars>>

\* the loop that writes to the channel of every follower
LegacyUnlock ==
    /\ Running
    /\ pc = "args"
    /\ i > Len(files)
    /\ r <= Len(followedFiles)
    /\ followedFiles' = [followedFiles EXCEPT ![r] =
                           [@ EXCEPT !.released = TRUE, !.unlocks = @ + 1]]
    /\ r' = r + 1
    /\ UNCHANGED <<cfgVars, envVars, pc, files, multipleFiles, i, filesFollowed,
                   opened, lines, total, foundNew, newFollowedFiles, pass,
                   printerVars, stdout, stderr, exitCode>>

\* main waits for the signal when it follows, and returns when it does not
LegacyEnd ==
    /\ Running
    /\ pc = "args"
    /\ i > Len(files)
    /\ r > Len(followedFiles)
    /\ pc' = "done"
    /\ exitCode' = IF follow /\ ~head THEN exitCode ELSE 0
    /\ UNCHANGED <<cfgVars, envVars, passVars, followedFiles, printerVars,
                   stdout, stderr>>

LegacyNext ==
    \/ LegacyFlags
    \/ LegacyFile
    \/ LegacyUnlock
    \/ LegacyEnd

LegacySpec == LegacyInit /\ [][LegacyNext]_vars

\* a run is started with standard input a terminal or a pipe
SignalInit ==
    /\ args \in ArgChoices
    /\ follow \in BOOLEAN
    /\ head = FALSE
    /\ startAtOffset = FALSE
    /\ numLines = NumLinesArg
    /\ interval = 1
    /\ rlimitErr = FALSE
    /\ outputPrinter = newLinePrinter(NilPrinter)
    /\ exists \in InitExists
    /\ fileLen = [p \in AbsPaths |-> IF p \in exists THEN InitLines ELSE 0]
    /\ appends = 0
    /\ creates = 0
    /\ signal = FALSE
    /\ scanErr = [p \in AbsPaths |-> 0]
    /\ stdin \in {NoStdin} \cup PipedStdin
    /\ pc = "main"
    /\ files = <<>>
    /\ multipleFiles = FALSE
    /\ i = 1
    /\ filesFollowed = {}
    /\ lines = <<>>
    /\ total = 0
    /\ foundNew = FALSE
    /\ followedFiles = <<>>
    /\ newFollowedFiles = <<>>
    /\ r = 1
    /\ pass = 0
    /\ currentPath = ""
    /\ m = NoMsg
    /\ ppc = "recv"
    /\ stdout = <<>>
    /\ stderr = <<>>
    /\ exitCode = -1
    /\ opened = <<>>
    /\ calls = <<>>
    /\ sent = 0

\* the run with the interrupt signal arriving at any moment; main and the
\* follow goroutine take the steps they can take
SpecSignal == SignalInit /\ [][Next \/ Interrupt]_vars /\ WF_vars(Coordinator)

\* ------------------------------------------------------------- properties
\* the lines the printer wrote for follower f, in the order of the output
FollowLines(f) ==
    SelectSeq(stdout, LAMBDA e : e.by = "printer" /\ e.kind = "line" /\ e.ff = f)

\* the line of the file a printed text was made from
SourceLine(text) == IF text < 0 THEN 0 - text ELSE text

\* follower f has handed a line to the printer
HasPrinted(f) ==
    followedFiles[f].next - Len(followedFiles[f].held) > followedFiles[f].offset

\* C1: every line of a followed file is covered by the initial scan or lies
\* in the range the follower emits, and no line is emitted twice or emitted
\* after the initial scan covered it.
C1_NoLineLostOrTwice ==
    \A f \in DOMAIN followedFiles :
        LET ff == followedFiles[f] IN
        /\ \A j \in 1..fileLen[Abs(ff.Path)] : j <= ff.scanned \/ j > ff.offset
        /\ \A k \in DOMAIN FollowLines(f) :
              /\ SourceLine(FollowLines(f)[k].text[1]) > ff.scanned
              /\ \A k2 \in DOMAIN FollowLines(f) :
                    k2 # k => FollowLines(f)[k2].text # FollowLines(f)[k].text

\* C2: a follower that has handed a line to the printer, or has a line in
\* the output, has received an Unlock before.
C2_NoPrintBeforeUnlock ==
    \A f \in DOMAIN followedFiles :
        (HasPrinted(f) \/ m.ff = f \/ FollowLines(f) # <<>>)
            => followedFiles[f].unlocks >= 1

\* a released follower has printed a line, while another follower is still
\* held at its gate with a line of its file waiting
C2_Witness ==
    /\ \E f \in DOMAIN followedFiles :
          followedFiles[f].unlocks = 1 /\ FollowLines(f) # <<>>
    /\ \E f \in DOMAIN followedFiles :
          /\ followedFiles[f].unlocks = 0
          /\ followedFiles[f].next < fileLen[Abs(followedFiles[f].Path)]

\* runFiles has left the loop over the paths of pass ps
LoopOver(ps) == ps < pass \/ pc \in {"release", "sleep", "rescan", "done"}

\* runFiles has returned from pass ps
Returned(ps) == ps < pass \/ pc \in {"sleep", "rescan", "done"}

\* C3: a follower is released at most once, only after the loop of its pass
\* has written every initial window of the pass, and it has been released
\* when runFiles returns from its pass; no line of a follower is in the
\* output before an initial window of the follower's pass.
C3_ReleaseAfterWindows ==
    /\ \A f \in DOMAIN followedFiles :
          LET ff == followedFiles[f] IN
          /\ ff.unlocks <= 1
          /\ ff.unlocks = 1 => LoopOver(ff.pass)
          /\ Returned(ff.pass) => ff.unlocks = 1
    /\ \A j, k \in DOMAIN stdout :
          (j < k /\ stdout[j].by = "printer" /\ stdout[j].kind = "line"
                 /\ stdout[k].kind = "window")
              => followedFiles[stdout[j].ff].pass # stdout[k].pass

\* two followers of the first pass and one of the second have been released,
\* and a follow line of the first pass precedes the window of the second
C3_Witness ==
    /\ pass = 2
    /\ pc = "sleep"
    /\ Cardinality({f \in DOMAIN followedFiles :
                       followedFiles[f].pass = 1 /\ followedFiles[f].unlocks = 1}) = 2
    /\ \E f \in DOMAIN followedFiles :
          followedFiles[f].pass = 2 /\ followedFiles[f].unlocks = 1
    /\ \E j, k \in DOMAIN stdout :
          j < k /\ stdout[j].kind = "line" /\ stdout[k].kind = "window"

\* C4: every write to standard output is made by the printer's goroutine,
\* and no initial window lands between the blank line, the header and the
\* line the printer writes for one message.
C4_SingleWriter ==
    /\ \A k \in DOMAIN stdout : stdout[k].by = "printer"
    /\ \A k \in DOMAIN stdout :
          (k > 1 /\ stdout[k].by = "coord")
              => ~(stdout[k - 1].by = "printer" /\ stdout[k - 1].kind \in {"blank", "header"})

\* the follow lines printed for a path name, in the order of the output
PathLines(path) ==
    SelectSeq(stdout, LAMBDA e : e.by = "printer" /\ e.kind = "line" /\ e.path = path)

\* C5: the lines printed for one path are the lines its follower produced,
\* in that order: they are consecutive lines of the file, starting with the
\* first line after the follower's start offset.
C5_PerPathOrder ==
    \A f \in DOMAIN followedFiles :
        LET ff == followedFiles[f]
            out == PathLines(ff.Path) IN
        \A k \in DOMAIN out : SourceLine(out[k].text[1]) = ff.offset + k

\* two followers run, and two lines of one path have been printed
C5_Witness ==
    /\ Cardinality({f \in DOMAIN followedFiles : followedFiles[f].released}) >= 2
    /\ \E f \in DOMAIN followedFiles : Len(PathLines(followedFiles[f].Path)) = 2

\* what the printer's goroutine wrote, in order
PrinterOut == SelectSeq(stdout, LAMBDA e : e.by = "printer")

\* the path of the last line printed before position k of out, "" at first
PrevLinePath(out, k) ==
    LET before == {j \in 1..(k - 1) : out[j].kind = "line"} IN
    IF before = {} THEN ""
    ELSE out[CHOOSE j \in before : \A j2 \in before : j2 <= j].path

\* C6: the printer's output is, message by message, either the line alone
\* (the path is the one of the line printed before) or a blank line, the
\* header of the new path and the line, with nothing of another message in
\* between; currentPath is the path of the message printed last.
C6_HeaderRule ==
    LET out == PrinterOut IN
    /\ \A k \in DOMAIN out :
          /\ out[k].kind = "blank" =>
                /\ out[k].path # PrevLinePath(out, k)
                /\ k < Len(out) =>
                      /\ out[k + 1].kind = "header"
                      /\ out[k + 1].path = out[k].path
                      /\ out[k + 1].ff = out[k].ff
          /\ out[k].kind = "header" =>
                /\ k > 1
                /\ out[k - 1].kind = "blank"
                /\ k < Len(out) =>
                      /\ out[k + 1].kind = "line"
                      /\ out[k + 1].path = out[k].path
                      /\ out[k + 1].ff = out[k].ff
          /\ out[k].kind = "line" =>
                IF out[k].path # PrevLinePath(out, k)
                THEN k > 1 /\ out[k - 1].kind = "header" /\ out[k - 1].path = out[k].path
                ELSE k = 1 \/ out[k - 1].kind = "line"
    /\ currentPath = IF out = <<>> THEN "" ELSE out[Len(out)].path
    /\ ppc = "header" => out # <<>> /\ out[Len(out)].kind = "blank"
    /\ ppc = "line" => out # <<>> /\ out[Len(out)].kind = "header"
    /\ ppc = "recv" => out = <<>> \/ out[Len(out)].kind = "line"

\* a line printed with its header, and the next line of the same path
\* printed alone, while two followers run
C6_Witness ==
    LET out == PrinterOut IN
    /\ \E k \in DOMAIN out :
          /\ k > 2
          /\ out[k].kind = "line"
          /\ out[k - 1].kind = "line"
          /\ out[k - 2].kind = "header"
    /\ Cardinality({f \in DOMAIN followedFiles : followedFiles[f].released}) >= 2

\* the calls that start a run of equal paths
RunStarts == {k \in DOMAIN calls : k = 1 \/ calls[k] # calls[k - 1]}

\* the runs that start with a path other than the printer's current path
HeaderRuns == RunStarts \ {k \in DOMAIN calls : k = 1 /\ calls[k] = ""}

Headers == {k \in DOMAIN stdout : stdout[k].kind = "header"}

\* the test has made its calls and the printer has printed them
AllPrinted == sent = Len(calls) /\ ppc = "recv"

\* every run of the set has a header right before its first line, and the
\* headers are as many as the runs
HeaderPerRun(runs) ==
    /\ Cardinality(Headers) = Cardinality(runs)
    /\ \A k \in runs :
          \E j \in DOMAIN stdout :
              /\ stdout[j].kind = "line" /\ stdout[j].text = <<k>>
              /\ j > 1
              /\ stdout[j - 1].kind = "header"
              /\ stdout[j - 1].path = calls[k]
    /\ \A h \in Headers :
          /\ h < Len(stdout)
          /\ stdout[h + 1].kind = "line"
          /\ stdout[h + 1].text[1] \in runs

\* C7 as stated: P runs give exactly P headers, each right before the first
\* line of its run, also for a first run with the empty path.
C7_HeaderPerRun == AllPrinted => HeaderPerRun(RunStarts)

\* C7 as amended: every run has its header right before its first line,
\* except a first run with the empty path, which has none.
C7_HeaderPerRunButEmptyFirst == AllPrinted => HeaderPerRun(HeaderRuns)

\* three runs, the first with the empty path, have been printed with two
\* headers
C7_Witness ==
    /\ AllPrinted
    /\ calls # <<>>
    /\ calls[1] = ""
    /\ Cardinality(RunStarts) = 3
    /\ Cardinality(Headers) = 2

\* C8: a follow line is preceded by a header only if what was printed right
\* before it, an initial window included, was for another path; and no line
\* of a follower is printed twice.
C8_HeaderOnlyOnPathChange ==
    /\ \A k \in DOMAIN stdout :
          stdout[k].kind = "header" =>
              LET prior == {j \in 1..(k - 1) : stdout[j].kind \in {"window", "line"}} IN
              prior # {} =>
                  stdout[CHOOSE j \in prior : \A j2 \in prior : j2 <= j].path
                      # stdout[k].path
    /\ \A f \in DOMAIN followedFiles :
          \A j, k \in DOMAIN FollowLines(f) :
              j # k => FollowLines(f)[j].text # FollowLines(f)[k].text

Windows(p) == {k \in DOMAIN stdout : stdout[k].kind = "window" /\ Abs(stdout[k].path) = p}

\* C9: every absolute path has at most one line extraction, one follower and
\* one initial window, and a path is marked in filesFollowed before
\* GetLines is called for it.
C9_ProcessedOnce ==
    /\ \A p \in AbsPaths :
          /\ Cardinality(Windows(p)) <= 1
          /\ Cardinality({f \in DOMAIN followedFiles : Abs(followedFiles[f].Path) = p}) <= 1
          /\ Cardinality({k \in DOMAIN opened : Abs(opened[k]) = p}) <= 1
    /\ \A k \in DOMAIN opened : Abs(opened[k]) \in filesFollowed
    /\ pc \in {"getlines", "newff", "println", "write"} => Abs(files[i]) \in filesFollowed

\* the second pass has gone over a list that names a path of the first pass
\* again, and the path has its one window
C9_Witness ==
    /\ pass = 2
    /\ pc = "release"
    /\ \E k \in DOMAIN files :
          \E w \in Windows(Abs(files[k])) : stdout[w].pass = 1
    /\ \E j, k \in DOMAIN files : j # k /\ Abs(files[j]) = Abs(files[k])

\* C10: the files tracked and the followers constructed are never more than
\* the ceiling.
C10_TrackedWithinLimit ==
    /\ Cardinality(filesFollowed) <= rlimit
    /\ Len(followedFiles) <= rlimit

\* GetLines has returned without an error and its window is not yet written
WindowRead == pc \in {"println", "write"}

\* the file GetLines has read
FileRead == Content(fileLen[Abs(files[i])])

Min(a, b) == IF a < b THEN a ELSE b

\* GetLines has returned, with an error or without
ScanEnded == pc \in {"returned", "failed"}

\* C11: for every file of L lines and every k >= 0 GetLines in tail mode
\* returns without an error, and what it returns is the last min(k, L) lines
\* of the file in their order and L as the total.
C11_TailWindow ==
    (ScanEnded /\ ~head) =>
        LET L == fileLen["/a"]
            n == Min(numLines, L) IN
        /\ pc = "returned"
        /\ lines = [j \in 1..n |-> Content(L)[L - n + j]]
        /\ total = L

C13_OffsetWindow ==
    (WindowRead /\ head /\ startAtOffset /\ numLines >= 1) =>
        LET L == Len(FileRead) IN
        /\ lines = [j \in 1..(IF numLines > L THEN 0 ELSE L - numLines + 1) |->
                       FileRead[numLines + j - 1]]
        /\ total = L

\* the paths GetLines was called for and that have no initial window
NoWindow == {k \in DOMAIN opened : Windows(Abs(opened[k])) = {}}

\* the reports of a file that could not be opened
OpenErrors == {k \in DOMAIN stderr : stderr[k] = "open"}

\* C14: when runFiles has returned, GetLines was called for every path of the
\* list, every path whose extraction did not fail has its initial window
\* and, in follow mode, a released follower: an error on one path ends
\* neither the loop nor the release of the others.
C14_ErrorSkipsOnePath ==
    (pass >= 1 /\ Returned(pass)) =>
        /\ \A k \in DOMAIN files :
              \E j \in DOMAIN opened : Abs(opened[j]) = Abs(files[k])
        /\ Cardinality(NoWindow) = Cardinality(OpenErrors)
        /\ follow =>
              \A k \in DOMAIN opened :
                  k \notin NoWindow =>
                      \E f \in DOMAIN followedFiles :
                          /\ followedFiles[f].Path = opened[k]
                          /\ followedFiles[f].released

\* the first path of a followed list could not be opened, the second has its
\* window and its released follower
C14_Witness ==
    /\ follow
    /\ pc = "done"
    /\ Len(files) = 2
    /\ opened = files
    /\ NoWindow = {1}
    /\ OpenErrors # {}
    /\ \E f \in DOMAIN followedFiles :
          followedFiles[f].Path = files[2] /\ followedFiles[f].released

\* the matches of the well-formed patterns of the run
ValidMatches ==
    {Abs(n) : n \in {DirNames[k] : k \in {k \in DOMAIN DirNames :
        Abs(DirNames[k]) \in exists /\ \E g \in DOMAIN args.Glob : args.Glob[g] = "*"}}}

\* C15: a resolution never fails its caller: wherever a malformed pattern
\* stands in the list, the process does not abort and the list resolved holds
\* the matches of every well-formed pattern.
C15_ResolveNeverFails ==
    pc # "main" \/ ~Running =>
        /\ exitCode # 2
        /\ \A k \in DOMAIN stderr : stderr[k] # "panic"
        /\ \A p \in ValidMatches : \E k \in DOMAIN files : Abs(files[k]) = p

\* C16: the list a resolution returns holds absolute, cleaned paths only and
\* no path twice.
C16_AbsoluteNoDuplicates ==
    pc # "main" \/ ~Running =>
        /\ \A k \in DOMAIN files : files[k] = Abs(files[k])
        /\ \A j, k \in DOMAIN files : j # k => files[j] # files[k]

\* the process has ended
Ended == ~Running

\* a run that has ended with code 0 without follow has made one pass and
\* returned from it; a run with follow has ended with code 0 exactly when the
\* interrupt signal was received, and runs as long as there was none
OnePassOrUntilSignal ==
    /\ ~follow =>
          /\ pass <= 1
          /\ exitCode = 0 => (pc = "done" /\ pass = 1)
    /\ follow => (exitCode = 0 <=> signal)
    /\ follow /\ ~signal /\ pc # "main" => Running

\* with standard input a terminal a run without follow makes its one pass
\* and ends, and a run with follow ends with the signal and not before
TerminalRunEnds ==
    /\ [](~stdin.piped => OnePassOrUntilSignal)
    /\ (~stdin.piped /\ ~follow) ~> Ended

\* a run that was given no path and no pattern and has standard input
\* piped: there is no file set, the run is the read of standard input
StdinOnly == stdin.piped /\ Len(args.Files) = 0 /\ Len(args.Glob) = 0

\* C18: without follow the coordinator makes exactly one pass over the
\* resolved file set and the process then ends; with follow the process does
\* not end by itself: it runs until the interrupt signal is received, and
\* ends then.
C18_OnePassOrUntilSignal ==
    /\ [](~StdinOnly => OnePassOrUntilSignal)
    /\ (~StdinOnly /\ ~follow) ~> Ended

\* C19: in follow mode with explicit paths only, no step after the startup
\* resolution assigns the file list, begins a second pass, or enters the
\* sleep or the resolution of a rescan loop.
C19_RescanOnlyWithGlob ==
    [][(follow /\ Len(args.Glob) = 0) =>
          /\ pc' \notin {"rescan", "sleep"}
          /\ pass' <= 1
          /\ pc # "main" => files' = files]_vars

\* a followed run with explicit paths only has made its one pass, and a file
\* created and the lines appended since have changed nothing in its list
C19_Witness ==
    /\ follow
    /\ Len(args.Glob) = 0
    /\ pc = "done"
    /\ pass = 1
    /\ creates = 1
    /\ appends = MaxAppends
    /\ Len(files) = Len(args.Files)

\* a rescan loop is running and has a resolution to come that finds p
Matching(p) ==
    /\ follow
    /\ Len(args.Glob) > 0
    /\ pc # "main"
    /\ Running
    /\ pass < MaxPasses
    /\ p \in exists

\* p has its one initial window and a released follower
PickedUp(p) ==
    /\ Cardinality(Windows(p)) = 1
    /\ \E f \in DOMAIN followedFiles :
          Abs(followedFiles[f].Path) = p /\ followedFiles[f].released

\* no follower is dropped, renamed or gated again
FollowersKept ==
    \A f \in DOMAIN followedFiles :
        /\ f \in DOMAIN followedFiles'
        /\ followedFiles'[f].Path = followedFiles[f].Path
        /\ followedFiles[f].released => followedFiles'[f].released

C21_HeadDisablesFollow ==
    (pc # "parse" /\ args.Follow /\ head) =>
        /\ ~follow
        /\ followedFiles = <<>>

\* C24: the configuration a follower's tail is started with reopens the file
\* exactly when -F was given.
C24_ReOpenIsFollowTrack ==
    \A f \in DOMAIN followedFiles :
        followedFiles[f].config.ReOpen = args.FollowTrack

\* C25: the configuration a follower's tail is started with polls exactly
\* when -P was given.
C25_PollIsUsePolling ==
    \A f \in DOMAIN followedFiles :
        followedFiles[f].config.Poll = args.Polling

\* the -n value given is neither all digits nor '+' followed by digits
BadNumLines ==
    /\ args.NumLinesStr # <<>>
    /\ ~justDigits(args.NumLinesStr)
    /\ ~(args.NumLinesStr[1] = "+" /\ justDigits(Tail(args.NumLinesStr)))

\* the patterns and the paths given resolve to no file
NoFiles == expandGlobs(args.Glob, args.Files, exists).expanded = <<>>

\* the process has read no file and constructed no follower, and when it
\* has ended it has ended with a message and a non-zero code
FatalBeforeWork ==
    /\ opened = <<>>
    /\ followedFiles = <<>>
    /\ stdout = <<>>
    /\ pc \in {"parse", "main"}
    /\ exitCode # 0
    /\ exitCode # -1 => stderr # <<>>

\* C26: with a malformed -n value or an empty resolved file set the process
\* never gets past its startup: it reads no file, constructs no follower,
\* and ends with a message on the error stream and a non-zero code.
C26_ConfigErrorsFatal == (BadNumLines \/ NoFiles) => FatalBeforeWork

\* C27: when setrlimit returned an error at startup the process does not go
\* on to its files: it stays before the resolution of the file set, reads
\* no file, and does not end with code 0.
C27_RlimitErrorFatal ==
    rlimitErr =>
        /\ pc = "parse"
        /\ opened = <<>>
        /\ followedFiles = <<>>
        /\ exitCode # 0

\* the seconds time.Sleep(interval seconds) pauses: none for a duration that
\* is not positive
SleepSeconds == IF interval > 0 THEN interval ELSE 0

\* C30: whenever the rescan loop sleeps between two passes, it sleeps for one
\* second at least.
C30_SleepAtLeastOneSecond == pc = "sleep" => SleepSeconds >= 1

\* C28: every step that changes currentPath is the step of the printer's
\* goroutine with the message it holds: it sets the path of that message,
\* and neither a follower nor the coordinator moves in that step.
C28_PathOnlyByPrinter ==
    [][currentPath' # currentPath =>
          /\ ppc = "got"
          /\ ppc' = "header"
          /\ currentPath' = m.path
          /\ m' = m
          /\ followedFiles' = followedFiles
          /\ pc' = pc]_vars

\* two followers have had lines printed: the path was set for one and set
\* again for the other
C28_Witness ==
    /\ \E j, k \in DOMAIN stdout :
          /\ j < k
          /\ stdout[j].kind = "header"
          /\ stdout[k].kind = "header"
          /\ stdout[j].path # stdout[k].path
    /\ currentPath # ""
    /\ Cardinality({f \in DOMAIN followedFiles : HasPrinted(f)}) = 2

\* C29: a path that cannot be opened is skipped with no output: nothing is
\* written to the error stream for it, and no window and no blank line.
C29_AccessErrorSilent ==
    /\ OpenErrors = {}
    /\ \A k \in DOMAIN stdout :
          stdout[k].kind = "window" => Abs(stdout[k].path) \in exists

\* C23: however fast the writer is, what a follower has had printed is the
\* lines of its file from its start offset on, each once and in order, and
\* nothing else: the k-th line printed is line offset + k.
C23_RateLimitLosesNothing ==
    \A f \in DOMAIN followedFiles :
        \A k \in DOMAIN FollowLines(f) :
            SourceLine(FollowLines(f)[k].text[1]) = followedFiles[f].offset + k


\* C31: during a tail scan, after each scanned line the window holds exactly
\* the last min(n, k) of the n lines scanned so far, k being the requested
\* count, so that it is never longer than k between two iterations; the scan
\* that has ended returns what GetLines returns
C31_TailWindowSlides ==
    ~head =>
        LET n == i - 1
            k == numLines
            c == Content(fileLen["/a"])
            got == GetLines("a", FALSE, FALSE, k)
        IN  /\ total = n
            /\ pc # "failed" =>
                 /\ lines = SubSeq(c, n - Min(n, k) + 1, n)
                 /\ Len(lines) <= k
            /\ pc \in {"returned", "failed"} =>
                 /\ lines = got.lines
                 /\ total = got.totalLines
                 /\ (got.err # "") = (pc = "failed")

\* a tail scan under way that has evicted two lines already and has more to scan
C31_Witness ==
    /\ ~head /\ pc = "scan"
    /\ numLines >= 1
    /\ total = numLines + 2
    /\ Len(lines) = numLines
    /\ i <= fileLen["/a"]

\* C32: the printer with the channel does what the printer with the mutex
\* did: whenever the goroutine has printed the calls made so far, the output
\* and the current path are those of the mutex printer after the same calls,
\* and in between the output is on its way to them
C32_ChannelPrinterAsMutexPrinter ==
    LET mp == MutexRun(sent) IN
    /\ Len(stdout) <= Len(mp.out)
    /\ stdout = SubSeq(mp.out, 1, Len(stdout))
    /\ ppc = "recv" => stdout = mp.out /\ currentPath = mp.currentPath

\* the calls of a test that starts with the empty path, changes the path and
\* keeps it, then goes back to a path used before, all printed
C32_Witness ==
    /\ sent = Len(calls) /\ ppc = "recv"
    /\ Len(calls) = 4
    /\ calls[1] = ""
    /\ calls[2] # ""
    /\ calls[3] = calls[2]
    /\ calls[4] = ""
    /\ Len(stdout) = 8

\* C33: newLinePrinter is a singleton constructor: once the package is
\* initialised every call returns the one instance, which is not nil, and
\* there are one channel, never replaced, and one goroutine receiving from it,
\* whatever the number of calls and whatever is being printed
C33_OnePrinter ==
    pc # "pkginit" =>
        /\ outputPrinter.instance = 1
        /\ outputPrinter.returned \subseteq {1}
        /\ outputPrinter.made = 1
        /\ outputPrinter.messages = 1
        /\ outputPrinter.consumers = 1

\* newLinePrinter has been called again and again by a test that has sent a
\* message the goroutine is still printing
C33_Witness ==
    /\ pc = "test"
    /\ outputPrinter.news >= 2
    /\ outputPrinter.returned = {1}
    /\ sent >= 1
    /\ ppc = "header"

\* C34: the release step of a pass always terminates: under fair scheduling
\* the coordinator that has entered the release loop leaves it, every Unlock
\* meeting the receive of the follower it releases, whatever the followers
\* released before are doing
C34_ReleaseTerminates == (pc = "release") ~> (pc \in {"sleep", "done"})

\* the release loop of a pass with two followers has released the first, which
\* has a line waiting while the printer is busy with the line before
C34_Witness ==
    /\ pc = "release"
    /\ Len(ToRelease) = 2
    /\ r = 2
    /\ ~followedFiles[ToRelease[2]].released
    /\ followedFiles[ToRelease[1]].released
    /\ followedFiles[ToRelease[1]].held # <<>>
    /\ ppc # "recv"

\* C35: the tracked set only grows, and GetLines is never called again for a
\* path it was called for, whether that call or the construction of the
\* follower failed and whatever has become of the file since
C35_TrackedSetOnlyGrows ==
    [][/\ filesFollowed \subseteq filesFollowed'
       /\ opened' # opened =>
             /\ Abs(opened'[Len(opened')]) \in filesFollowed
             /\ \A k \in DOMAIN opened : Abs(opened[k]) # Abs(opened'[Len(opened')])]_vars

\* the first pass could not open one path and lost the file of the other
\* before its follower was made; the second pass has run over a list with a
\* marked path whose file is there again, and has opened nothing
C35_Witness ==
    /\ follow
    /\ pass = 2
    /\ pc \in {"release", "sleep"}
    /\ Len(opened) = 2
    /\ Cardinality(OpenErrors) = 1
    /\ followedFiles = <<>>
    /\ stdout = <<>>
    /\ \E k \in DOMAIN files :
          /\ Abs(files[k]) \in filesFollowed
          /\ Abs(files[k]) \in exists

\* C36: in follow mode, when the loop of a pass is over, the only paths
\* GetLines was called for that have no initial window are those it could not
\* open: a path whose lines were extracted has its window also when its
\* follower could not be constructed
C36_WindowDespiteFollowerError ==
    (follow /\ pass >= 1 /\ LoopOver(pass)) =>
        Cardinality(NoWindow) = Cardinality(OpenErrors)

\* the lines the goroutine of follower f has taken from its tail
Taken(f) == followedFiles[f].next - followedFiles[f].offset

\* the lines of follower f the printer has printed
Printed(f) ==
    Cardinality({k \in DOMAIN stdout :
        stdout[k].by = "printer" /\ stdout[k].kind = "line" /\ stdout[k].ff = f})

\* the goroutine of follower f is in print, blocked in its send: the message
\* is sent and not yet consumed
Blocked(f) == followedFiles[f].held # <<>>

\* the printer's goroutine has received a message of follower f and has not
\* printed its line yet
InPrinter(f) == ppc # "recv" /\ m.ff = f

\* C37: the queue of the printer is bounded: a print returns when the
\* goroutine has received its message, so each follower has at most one
\* message sent and not consumed, and of the lines it has taken from its tail
\* all are printed but that one and the one the printer holds, however many
\* lines the files have got
C37_QueueBounded ==
    /\ \A f \in DOMAIN followedFiles :
          /\ Len(followedFiles[f].held) <= 1
          /\ Taken(f) - Printed(f) =
                Len(followedFiles[f].held) + (IF InPrinter(f) THEN 1 ELSE 0)
    /\ Cardinality({f \in DOMAIN followedFiles : Blocked(f)}) <= Len(followedFiles)

\* the goroutine is printing the line of one follower while another follower
\* is blocked with a line of its own, every append of the run made
C37_Witness ==
    /\ appends = MaxAppends
    /\ ppc = "header"
    /\ \E f, g \in DOMAIN followedFiles :
          /\ f # g
          /\ InPrinter(f)
          /\ Taken(f) = 1 /\ Printed(f) = 0
          /\ Blocked(g)
====
